---- MODULE Spec2Model ----
(***************************************************************************)
(* The sales-order store of backend/app/utils/json_storage.py: one JSON    *)
(* file holding the whole collection of orders, read entirely and written  *)
(* entirely by every operation.                                            *)
(*                                                                         *)
(* JSON values are tagged tuples, so that values of different Python types *)
(* are different and comparable: None, a str, a number, a list, a datetime *)
(* object (in memory only) and the ISO-8601 str that DateTimeEncoder       *)
(* writes for a datetime.  A dict is a function from key strings to        *)
(* values.                                                                 *)
(*                                                                         *)
(* After the store come the PATCH handlers of routers/sales_orders.py      *)
(* (RequestSpec), match_sales_order_items of the database backend          *)
(* (MatchSpec; MatchRaceSpec beside update_sales_order of another caller), *)
(* normalize_fields_manually and process_extracted_data of                 *)
(* utils/llm_utils.py (NormalizeSpec), download_sales_order_csv (CsvSpec)  *)
(* and create_new_sales_order (CreateSpec).                                *)
(***************************************************************************)
EXTENDS Integers, Sequences, FiniteSets, TLC

VARIABLES
    file,       \* data/sales_orders.json: [st, data]
    clock,      \* the last value datetime.now() returned
    nextId,     \* how many uuid4() values create_sales_order has drawn
    prev,       \* the file as it was before the last call
    last,       \* the last call: its operation, arguments and outcome
    deleted,    \* creation numbers of the orders a delete call targeted and removed
    lost,       \* creation numbers of the orders destroyed with the file
    pc,         \* concurrent callers: the position of each in its call
    call,       \* concurrent callers: the call each is executing
    loc,        \* concurrent callers: the collection each has loaded and mutated
    clobbered,  \* concurrent callers: another writer wrote into the file this one has open
    seen,       \* the reader: what its last get_sales_orders returned, and when
    expect,     \* the effects of the calls that returned successfully
    req,        \* the request layer: the PATCH request being handled and its response
    db,         \* the database backend: the stored order document
    agg,        \* the database backend: the match_sales_order_items call in progress,
                \* and the update_sales_order calls made beside it
    given,      \* the argument of the last call of a pure function
    result      \* what that call returned or raised

seqVars == <<prev, last, deleted, lost>>
concVars == <<pc, call, loc, clobbered, seen, expect>>
reqVars == <<req>>
dbVars == <<db, agg>>
pureVars == <<given, result>>
extraVars == <<req, db, agg, given, result>>
vars == <<file, clock, nextId, prev, last, deleted, lost,
          pc, call, loc, clobbered, seen, expect,
          req, db, agg, given, result>>

----------------------------------------------------------------------------
(* Bounds of the model *)

MaxClock == 3
MaxCreates == 2
MaxIndex == 2
MaxLineItems == 2
MaxMatches == 2
MaxNum == 2
MaxItems == 2
MaxText == 2
MaxUpdates == 2

----------------------------------------------------------------------------
(* JSON values *)

None == <<"null">>
Str(s) == <<"str", s>>
Num(n) == <<"num", n>>
List(xs) == <<"list", xs>>
Datetime(t) == <<"datetime", t>>
\* the str datetime.isoformat() gives for the datetime of clock reading t
IsoString(t) == <<"iso", t>>
EmptyDict == [k \in {} |-> None]

\* str(uuid.uuid4()): the n-th identifier drawn; no two draws agree
Uuid(n) == Str("order-" \o ToString(n))

\* DateTimeEncoder.default under json.dump, followed by json.load: a datetime
\* comes back as its ISO string, every other value as itself
DateTimeEncoder(v) == IF v[1] = "datetime" THEN IsoString(v[2]) ELSE v

JsonRoundTrip(doc) == [k \in DOMAIN doc |-> DateTimeEncoder(doc[k])]

\* dict.update / the key-by-key assignment loops: the keys of updates win
Merge(doc, updates) == updates @@ doc

----------------------------------------------------------------------------
(* The file.  st is "ok" (data is the stored collection), "missing", *)
(* "invalid" (empty or not JSON: json.load raises JSONDecodeError) or *)
(* "unreadable" (open raises an OSError other than FileNotFoundError). *)
(* Each stored entry pairs the document with sn, the number of the create *)
(* call that made it: a history label, not a field of the document. *)

OkFile(orders) == [st |-> "ok", data |-> orders]

ensure_storage_dir(f) == IF f.st = "missing" THEN OkFile(<<>>) ELSE f

get_sales_orders(f) ==
    LET g == ensure_storage_dir(f)
    IN  CASE g.st = "ok" -> [file |-> g, raised |-> FALSE, orders |-> g.data]
          [] g.st = "invalid" -> [file |-> g, raised |-> FALSE, orders |-> <<>>]
          [] OTHER -> [file |-> g, raised |-> TRUE, orders |-> <<>>]

save_sales_orders(orders) ==
    OkFile([i \in 1..Len(orders) |->
               [sn |-> orders[i].sn, doc |-> JsonRoundTrip(orders[i].doc)]])

\* the first position whose "_id" equals id, 0 when there is none
FirstIndex(orders, id) ==
    LET hits == {i \in 1..Len(orders) : orders[i].doc["_id"] = id}
    IN  IF hits = {} THEN 0 ELSE CHOOSE i \in hits : \A j \in hits : i <= j

RemoveAt(s, i) == [j \in 1..(Len(s) - 1) |-> IF j < i THEN s[j] ELSE s[j + 1]]

Failed(f, kind) == [file |-> f, res |-> kind, pos |-> 0, ret |-> EmptyDict]

create_sales_order(f, file_name, line_items, n, t1, t2) ==
    LET r == get_sales_orders(f)
        new_order == ("_id" :> Uuid(n)) @@ ("file_name" :> file_name)
                     @@ ("line_items" :> List(line_items))
                     @@ ("created_at" :> Datetime(t1))
                     @@ ("updated_at" :> Datetime(t2))
                     @@ ("status" :> Str("pending"))
    IN  IF r.raised THEN Failed(r.file, "OSError")
        ELSE [file |-> save_sales_orders(Append(r.orders, [sn |-> n, doc |-> new_order])),
              res |-> "ok", pos |-> Len(r.orders) + 1, ret |-> new_order]

get_sales_order_by_id(f, id) ==
    LET r == get_sales_orders(f)
        i == FirstIndex(r.orders, id)
    IN  IF r.raised THEN [file |-> r.file, res |-> "OSError", found |-> FALSE, order |-> EmptyDict]
        ELSE IF i = 0 THEN [file |-> r.file, res |-> "ok", found |-> FALSE, order |-> EmptyDict]
        ELSE [file |-> r.file, res |-> "ok", found |-> TRUE, order |-> r.orders[i].doc]

\* a variant that stamps updated_at before it merges the updates
update_sales_order_stamp_first(f, id, updates, t) ==
    LET r == get_sales_orders(f)
        i == FirstIndex(r.orders, id)
    IN  IF r.raised THEN Failed(r.file, "OSError")
        ELSE IF i = 0 THEN Failed(r.file, "NotFound")
        ELSE LET order == Merge(Merge(r.orders[i].doc, "updated_at" :> Datetime(t)),
                                updates)
             IN  [file |-> save_sales_orders([r.orders EXCEPT ![i].doc = order]),
                  res |-> "ok", pos |-> i, ret |-> order]

update_sales_order(f, id, updates, t) ==
    LET r == get_sales_orders(f)
        i == FirstIndex(r.orders, id)
    IN  IF r.raised THEN Failed(r.file, "OSError")
        ELSE IF i = 0 THEN Failed(r.file, "NotFound")
        ELSE LET order == Merge(Merge(r.orders[i].doc, updates),
                                "updated_at" :> Datetime(t))
             IN  [file |-> save_sales_orders([r.orders EXCEPT ![i].doc = order]),
                  res |-> "ok", pos |-> i, ret |-> order]

\* a variant whose bound check is item_index > len(...): indexing the list at
\* its length raises IndexError
update_line_item_off_by_one(f, id, item_index, updates, t) ==
    LET r == get_sales_orders(f)
        i == FirstIndex(r.orders, id)
    IN  IF r.raised THEN Failed(r.file, "OSError")
        ELSE IF i = 0 THEN Failed(r.file, "NotFound")
        ELSE LET order == r.orders[i].doc
                 li == order["line_items"]
             IN  IF li[1] # "list" THEN Failed(r.file, "TypeError")
                 ELSE IF item_index < 0 \/ item_index > Len(li[2])
                      THEN Failed(r.file, "InvalidIndex")
                 ELSE IF item_index = Len(li[2]) THEN Failed(r.file, "IndexError")
                 ELSE LET items == [li[2] EXCEPT ![item_index + 1] = Merge(@, updates)]
                          updated == Merge(Merge(order, "line_items" :> List(items)),
                                           "updated_at" :> Datetime(t))
                      IN  [file |-> save_sales_orders([r.orders EXCEPT ![i].doc = updated]),
                           res |-> "ok", pos |-> i, ret |-> updated]

\* a variant that merges the updates into every line item of the order
update_line_item_every_item(f, id, item_index, updates, t) ==
    LET r == get_sales_orders(f)
        i == FirstIndex(r.orders, id)
    IN  IF r.raised THEN Failed(r.file, "OSError")
        ELSE IF i = 0 THEN Failed(r.file, "NotFound")
        ELSE LET order == r.orders[i].doc
                 li == order["line_items"]
             IN  IF li[1] # "list" THEN Failed(r.file, "TypeError")
                 ELSE IF item_index < 0 \/ item_index >= Len(li[2])
                      THEN Failed(r.file, "InvalidIndex")
                 ELSE LET items == [m \in 1..Len(li[2]) |-> Merge(li[2][m], updates)]
                          updated == Merge(Merge(order, "line_items" :> List(items)),
                                           "updated_at" :> Datetime(t))
                      IN  [file |-> save_sales_orders([r.orders EXCEPT ![i].doc = updated]),
                           res |-> "ok", pos |-> i, ret |-> updated]

\* len(order["line_items"]) raises TypeError when an update has replaced the
\* list by None
update_line_item(f, id, item_index, updates, t) ==
    LET r == get_sales_orders(f)
        i == FirstIndex(r.orders, id)
    IN  IF r.raised THEN Failed(r.file, "OSError")
        ELSE IF i = 0 THEN Failed(r.file, "NotFound")
        ELSE LET order == r.orders[i].doc
                 li == order["line_items"]
             IN  IF li[1] # "list" THEN Failed(r.file, "TypeError")
                 ELSE IF item_index < 0 \/ item_index >= Len(li[2])
                      THEN Failed(r.file, "InvalidIndex")
                 ELSE LET items == [li[2] EXCEPT ![item_index + 1] = Merge(@, updates)]
                          updated == Merge(Merge(order, "line_items" :> List(items)),
                                           "updated_at" :> Datetime(t))
                      IN  [file |-> save_sales_orders([r.orders EXCEPT ![i].doc = updated]),
                           res |-> "ok", pos |-> i, ret |-> updated]

\* a variant that calls sales_orders.pop() for sales_orders.pop(i)
delete_sales_order_pops_last(f, id) ==
    LET r == get_sales_orders(f)
        i == FirstIndex(r.orders, id)
    IN  IF r.raised THEN Failed(r.file, "OSError")
        ELSE IF i = 0 THEN Failed(r.file, "False")
        ELSE [file |-> save_sales_orders(RemoveAt(r.orders, Len(r.orders))),
              res |-> "True", pos |-> i, ret |-> EmptyDict]

delete_sales_order(f, id) ==
    LET r == get_sales_orders(f)
        i == FirstIndex(r.orders, id)
    IN  IF r.raised THEN Failed(r.file, "OSError")
        ELSE IF i = 0 THEN Failed(r.file, "False")
        ELSE [file |-> save_sales_orders(RemoveAt(r.orders, i)),
              res |-> "True", pos |-> i, ret |-> EmptyDict]

\* GET /sales-orders: any exception of the store becomes an empty list, status 200
get_all_sales_orders(f) ==
    LET r == get_sales_orders(f)
    IN  [file |-> r.file, status |-> 200,
         body |-> IF r.raised THEN <<>> ELSE r.orders]

----------------------------------------------------------------------------
(* The inputs the calls are given *)

FileNames == {Str("a.pdf"), Str("b.pdf")}

ItemBolt == ("Request Item" :> Str("Bolt")) @@ ("Quantity" :> Num(10))
            @@ ("matched_item" :> None) @@ ("match_score" :> None)
ItemNut == ("Request Item" :> Str("Nut")) @@ ("matched_item" :> Str("Hex Nut"))
           @@ ("match_score" :> Num(95))

ItemLists == {<<>>, <<ItemBolt, ItemNut>>}

\* partial_fields of update: the status change of POST .../match, and request
\* bodies naming the keys the store itself sets
OrderUpdates ==
    { "status" :> Str("matched"),
      "_id" :> Uuid(2),
      ("created_at" :> IsoString(99)) @@ ("updated_at" :> IsoString(99)),
      "line_items" :> None }

\* partial_fields of update_line_item: choosing a match, clearing one, editing
\* a quantity
ItemUpdates ==
    { ("matched_item" :> Str("Hex Bolt")) @@ ("match_score" :> Num(90))
        @@ ("alternate_matches" :> List(<<[match |-> Str("Wing Bolt"), score |-> Num(80)]>>)),
      "matched_item" :> None,
      ("Quantity" :> Num(12)) @@ ("updated_at" :> IsoString(99)) }

Ids == {Uuid(n) : n \in 1..MaxCreates}

\* datetime.now() in a call that follows another call: the file has been read
\* and written in between, and the clock has advanced
Now(t) == {u \in {t + 1} : u <= MaxClock}

\* datetime.now() right after another datetime.now(), as in the dict that
\* create_sales_order builds: the same reading, or the next one
NowAgain(t) == {u \in {t, t + 1} : u <= MaxClock}

\* what get_sales_orders returns for file f
Stored(f) == get_sales_orders(f).orders

Serials(orders) == [i \in 1..Len(orders) |-> orders[i].sn]
Range(s) == {s[i] : i \in 1..Len(s)}

Call(op, id, idx, upd, fn, items, r, t1, t2) ==
    [op |-> op, id |-> id, idx |-> idx, upd |-> upd, file_name |-> fn,
     items |-> items, res |-> r.res, pos |-> r.pos, ret |-> r.ret,
     t1 |-> t1, t |-> t2]

NoCall == Call("none", None, 0, EmptyDict, None, <<>>, Failed(OkFile(<<>>), "none"), 0, 0)

----------------------------------------------------------------------------
(* One caller at a time: each action is one whole call *)

Create ==
    /\ nextId < MaxCreates
    /\ \E fn \in FileNames, items \in ItemLists, t1 \in Now(clock) : \E t2 \in NowAgain(t1) :
         LET r == create_sales_order(file, fn, items, nextId + 1, t1, t2)
         IN  /\ file' = r.file
             /\ prev' = file
             /\ nextId' = IF r.res = "ok" THEN nextId + 1 ELSE nextId
             /\ clock' = IF r.res = "ok" THEN t2 ELSE clock
             /\ last' = Call("create", Uuid(nextId + 1), 0, EmptyDict, fn, items, r, t1, t2)
    /\ UNCHANGED <<deleted, lost>>
    /\ UNCHANGED concVars
    /\ UNCHANGED extraVars

Update ==
    /\ \E id \in Ids, upd \in OrderUpdates, t \in Now(clock) :
         LET r == update_sales_order(file, id, upd, t)
         IN  /\ file' = r.file
             /\ prev' = file
             /\ clock' = IF r.res = "ok" THEN t ELSE clock
             /\ last' = Call("update", id, 0, upd, None, <<>>, r, t, t)
    /\ UNCHANGED <<nextId, deleted, lost>>
    /\ UNCHANGED concVars
    /\ UNCHANGED extraVars

UpdateLineItem ==
    /\ \E id \in Ids, idx \in -1..MaxIndex, upd \in ItemUpdates, t \in Now(clock) :
         LET r == update_line_item(file, id, idx, upd, t)
         IN  /\ file' = r.file
             /\ prev' = file
             /\ clock' = IF r.res = "ok" THEN t ELSE clock
             /\ last' = Call("update_line_item", id, idx, upd, None, <<>>, r, t, t)
    /\ UNCHANGED <<nextId, deleted, lost>>
    /\ UNCHANGED concVars
    /\ UNCHANGED extraVars

\* the order a delete call is aimed at: the first one stored under the id
TargetOf(f, id) ==
    LET orders == get_sales_orders(f).orders
        hits == {i \in 1..Len(orders) : orders[i].doc["_id"] = id}
    IN  {orders[i].sn : i \in {h \in hits : \A j \in hits : h <= j}}

Delete ==
    /\ \E id \in Ids :
         LET r == delete_sales_order(file, id)
         IN  /\ file' = r.file
             /\ prev' = file
             /\ last' = Call("delete", id, 0, EmptyDict, None, <<>>, r, clock, clock)
             /\ deleted' = IF r.res = "True" THEN deleted \cup TargetOf(file, id) ELSE deleted
    /\ UNCHANGED <<clock, nextId, lost>>
    /\ UNCHANGED concVars
    /\ UNCHANGED extraVars

ListOrders ==
    /\ LET r == get_all_sales_orders(file)
       IN  /\ file' = r.file
           /\ prev' = file
           /\ last' = Call("list", None, 0, EmptyDict, None, r.body,
                           Failed(r.file, "ok"), clock, clock)
    /\ UNCHANGED <<clock, nextId, deleted, lost>>
    /\ UNCHANGED concVars
    /\ UNCHANGED extraVars

\* the environment removes the file, leaves it empty or garbled, or makes it
\* unreadable: the orders in it are gone
Damage ==
    /\ file.st = "ok"
    /\ \E kind \in {"missing", "invalid", "unreadable"} :
         file' = [st |-> kind, data |-> <<>>]
    /\ prev' = file
    /\ lost' = lost \cup Range(Serials(file.data))
    /\ last' = [NoCall EXCEPT !.op = "damage"]
    /\ UNCHANGED <<clock, nextId, deleted>>
    /\ UNCHANGED concVars
    /\ UNCHANGED extraVars

\* the reply of the chat completion: the call raises, or returns a text, of
\* which open and close say whether it holds a '[' and a ']', valid whether
\* the text from the first '[' to the last ']' is JSON, value what it
\* denotes and records whether every element of it is a key/value record
LlmReply(kind, open, close, valid, records, value) ==
    [kind |-> kind, open |-> open, close |-> close, valid |-> valid,
     records |-> records, value |-> value]

NoReply == LlmReply("none", FALSE, FALSE, FALSE, FALSE, <<>>)

NoResult == [op |-> "none", raised |-> FALSE, out |-> <<>>, first |-> <<>>,
             source |-> "none", llm |-> NoReply]

\* outside the request layer, the database backend and the pure functions
ExtraInit ==
    /\ req = [pc |-> "idle", op |-> "none", id |-> None, idx |-> 0,
               upd |-> EmptyDict, res |-> "none", status |-> 0]
    /\ agg = [pc |-> "idle", id |-> None, before |-> <<>>, items |-> <<>>,
               reply |-> [kind |-> "none", results |-> <<>>], set |-> EmptyDict,
               status |-> 0, other |-> <<>>]
    /\ result = NoResult

ConcInit ==
    /\ pc = [p \in {} |-> "idle"]
    /\ call = [p \in {} |-> NoCall]
    /\ loc = [p \in {} |-> <<>>]
    /\ clobbered = {}
    /\ seen = <<>>
    /\ expect = {}

Init ==
    /\ file = [st |-> "missing", data |-> <<>>]
    /\ clock = 0
    /\ nextId = 0
    /\ prev = file
    /\ last = NoCall
    /\ deleted = {}
    /\ lost = {}
    /\ ConcInit
    /\ ExtraInit
    /\ db = [i \in {} |-> EmptyDict]
    /\ given = <<>>

Next == Create \/ Update \/ UpdateLineItem \/ Delete \/ ListOrders \/ Damage

Spec == Init /\ [][Next]_vars

----------------------------------------------------------------------------
(* Several callers at once.  The module takes no lock, so a call of a writer *)
(* is three steps that other callers' steps may come between: it loads the *)
(* file and computes the new collection; save_sales_orders opens the file *)
(* for writing, which empties it; json.dump writes the collection and the *)
(* file is closed.  A reader's get_sales_orders is one step. *)

Writers == {"w1", "w2"}

ConcOrderUpdates == {"status" :> Str("matched")}
ConcItemUpdates == {"Quantity" :> Num(12)}

\* the calls a writer may make, each applied to the file as the writer loads it
WriterCalls(f, n, t) ==
    {Call("create", Uuid(n), 0, EmptyDict, Str("a.pdf"), <<ItemBolt, ItemNut>>,
          create_sales_order(f, Str("a.pdf"), <<ItemBolt, ItemNut>>, n, t, t2), t, t2)
        : t2 \in NowAgain(t)}
    \cup {Call("update", id, 0, upd, None, <<>>, update_sales_order(f, id, upd, t), t, t)
        : id \in Ids, upd \in ConcOrderUpdates}
    \cup {Call("update_line_item", id, 0, upd, None, <<>>,
               update_line_item(f, id, 0, upd, t), t, t)
        : id \in Ids, upd \in ConcItemUpdates}
    \cup {Call("delete", id, 0, EmptyDict, None, <<>>, delete_sales_order(f, id), t, t)
        : id \in Ids}

\* what the call of c, applied to file f, would write
ToWrite(f, c) ==
    CASE c.op = "create" ->
            create_sales_order(f, c.file_name, c.items, c.pos, c.t1, c.t).file.data
      [] c.op = "update" -> update_sales_order(f, c.id, c.upd, c.t).file.data
      [] c.op = "update_line_item" ->
            update_line_item(f, c.id, c.idx, c.upd, c.t).file.data
      [] OTHER -> delete_sales_order(f, c.id).file.data

SnOf(orders, id) == orders[FirstIndex(orders, id)].sn

\* the effects of a call that has returned successfully, added to those of the
\* calls before it: the later call decides a key both have set
Effects(e, c, orders) ==
    CASE c.op = "create" -> e \cup {<<"exists", c.pos>>}
      [] c.op = "update" ->
            LET n == SnOf(orders, c.id)
            IN  {x \in e : ~(x[1] = "has" /\ x[2] = n /\ x[3] \in DOMAIN c.upd)}
                \cup {<<"has", n, k, c.upd[k]>> : k \in DOMAIN c.upd}
      [] c.op = "update_line_item" ->
            LET n == SnOf(orders, c.id)
            IN  {x \in e : ~(x[1] = "item" /\ x[2] = n /\ x[3] = c.idx
                              /\ x[4] \in DOMAIN c.upd)}
                \cup {<<"item", n, c.idx, k, c.upd[k]>> : k \in DOMAIN c.upd}
      [] OTHER ->
            LET n == SnOf(orders, c.id)
            IN  {x \in e : x[2] # n} \cup {<<"absent", n>>}

\* a writer calls create, update, update_line_item or delete: get_sales_orders
\* and the change in memory; a call that fails returns here
Load(p) ==
    /\ pc[p] = "idle"
    /\ \E t \in Now(clock) : \E c \in WriterCalls(file, nextId + 1, t) :
         /\ call' = [call EXCEPT ![p] =
                        IF c.op = "create" THEN [c EXCEPT !.pos = nextId + 1] ELSE c]
         /\ IF c.res \in {"ok", "True"}
            THEN /\ pc' = [pc EXCEPT ![p] = "loaded"]
                 /\ loc' = [loc EXCEPT ![p] = [base |-> Stored(file), before |-> <<>>]]
                 /\ clock' = IF c.op = "delete" THEN clock ELSE c.t
                 /\ nextId' = IF c.op = "create" THEN nextId + 1 ELSE nextId
            ELSE /\ UNCHANGED <<pc, loc, clock, nextId>>
         /\ file' = get_sales_orders(file).file
    /\ UNCHANGED <<clobbered, seen, expect>>
    /\ UNCHANGED seqVars
    /\ UNCHANGED extraVars

\* save_sales_orders: open(..., "w") leaves the file empty
Open(p) ==
    /\ pc[p] = "loaded"
    /\ pc' = [pc EXCEPT ![p] = "opened"]
    /\ loc' = [loc EXCEPT ![p].before = Stored(file)]
    /\ file' = [st |-> "invalid", data |-> <<>>]
    /\ clobbered' = clobbered \ {p}
    /\ UNCHANGED <<clock, nextId, call, seen, expect>>
    /\ UNCHANGED seqVars
    /\ UNCHANGED extraVars

\* save_sales_orders: json.dump and the close of the file; the call returns.
\* When another writer has written into the file since this one opened it,
\* the bytes of the two are mixed unless this writer's cover the other's.
Dump(p) ==
    /\ pc[p] = "opened"
    /\ pc' = [pc EXCEPT ![p] = "idle"]
    /\ \E mixed \in {FALSE, (p \in clobbered)} :
         file' = IF mixed THEN [st |-> "invalid", data |-> <<>>]
                 ELSE OkFile(ToWrite(OkFile(loc[p].base), call[p]))
    /\ clobbered' = (clobbered \ {p}) \cup {q \in Writers \ {p} : pc[q] = "opened"}
    /\ expect' = Effects(expect, call[p], loc[p].base)
    /\ loc' = [loc EXCEPT ![p] = [base |-> <<>>, before |-> <<>>]]
    /\ UNCHANGED <<clock, nextId, call, seen>>
    /\ UNCHANGED seqVars
    /\ UNCHANGED extraVars

\* a reader calls get_sales_orders (get_sales_order_by_id searches what it
\* returns).  seen keeps what was returned and, when one writer is between
\* its open and its close, the collection before that writer's open and the
\* one it is writing.
Read ==
    /\ LET busy == {p \in Writers : pc[p] = "opened"}
       IN  seen' = IF Cardinality(busy) = 1
                   THEN LET p == CHOOSE q \in busy : TRUE
                        IN  [during |-> TRUE, got |-> Stored(file),
                             old |-> loc[p].before,
                             new |-> ToWrite(OkFile(loc[p].base), call[p])]
                   ELSE [during |-> FALSE, got |-> Stored(file), old |-> <<>>, new |-> <<>>]
    /\ file' = get_sales_orders(file).file
    /\ UNCHANGED <<clock, nextId, pc, call, loc, clobbered, expect>>
    /\ UNCHANGED seqVars
    /\ UNCHANGED extraVars

ConcurrentInit ==
    /\ file = [st |-> "missing", data |-> <<>>]
    /\ clock = 0
    /\ nextId = 0
    /\ prev = file
    /\ last = NoCall
    /\ deleted = {}
    /\ lost = {}
    /\ pc = [p \in Writers |-> "idle"]
    /\ call = [p \in Writers |-> NoCall]
    /\ loc = [p \in Writers |-> [base |-> <<>>, before |-> <<>>]]
    /\ clobbered = {}
    /\ seen = [during |-> FALSE, got |-> <<>>, old |-> <<>>, new |-> <<>>]
    /\ expect = {}
    /\ ExtraInit
    /\ db = [i \in {} |-> EmptyDict]
    /\ given = <<>>

ConcurrentNext == (\E p \in Writers : Load(p) \/ Open(p) \/ Dump(p)) \/ Read

ConcurrentSpec == ConcurrentInit /\ [][ConcurrentNext]_vars

----------------------------------------------------------------------------
(* Properties of the store, one caller at a time *)

HasId(orders, id) == \E i \in 1..Len(orders) : orders[i].doc["_id"] = id

Absent(d, k) == k \notin DOMAIN d \/ d[k] = None

NoAlternates(d) == Absent(d, "alternate_matches") \/ d["alternate_matches"] = List(<<>>)

ItemsOf(doc) == IF doc["line_items"][1] = "list" THEN doc["line_items"][2] ELSE <<>>

\* C3: the stored orders have pairwise distinct ids, and each order's id is
\* the one create assigned to it.
C3_IdsDistinctAndNeverReassigned ==
    LET orders == Stored(file)
    IN  /\ \A i, j \in 1..Len(orders) :
             i # j => orders[i].doc["_id"] # orders[j].doc["_id"]
        /\ \A i \in 1..Len(orders) : orders[i].doc["_id"] = Uuid(orders[i].sn)

\* C4: every stored line item without a matched_item has no match_score and
\* no alternate_matches.
C4_UnmatchedItemHasNoScore ==
    \A i \in 1..Len(Stored(file)) :
        LET items == ItemsOf(Stored(file)[i].doc)
        IN  \A m \in 1..Len(items) :
                Absent(items[m], "matched_item")
                    => Absent(items[m], "match_score") /\ NoAlternates(items[m])

\* C5: get(returned_id) right after create(file_name, line_items) returns an
\* order with these line_items and file_name, status "pending" and
\* created_at = updated_at.
C5_CreateThenGet ==
    (last.op = "create" /\ last.res = "ok") =>
        LET g == get_sales_order_by_id(file, last.id)
        IN  /\ g.found
            /\ g.order["line_items"] = List(last.items)
            /\ g.order["file_name"] = last.file_name
            /\ g.order["status"] = Str("pending")
            /\ g.order["created_at"] = g.order["updated_at"]

\* C6: an update or update_line_item call that fails leaves every stored order
\* as it was; on a collection that can be read, an id that no order has gives
\* NotFound, and an index below 0 or at or above the number of line items
\* gives InvalidIndex.
C6_FailedMutationChangesNothing ==
    LET old == Stored(prev)
        i == FirstIndex(old, last.id)
    IN  /\ (last.op \in {"update", "update_line_item"} /\ last.res # "ok")
              => Stored(file) = old
        /\ (last.op \in {"update", "update_line_item"} /\ prev.st # "unreadable"
              /\ ~HasId(old, last.id))
              => last.res = "NotFound"
        /\ (last.op = "update_line_item" /\ i # 0)
              => LET li == old[i].doc["line_items"]
                 IN  (li[1] = "list" /\ (last.idx < 0 \/ last.idx >= Len(li[2])))
                         => last.res = "InvalidIndex"

C6_Witness ==
    /\ last.op = "update_line_item"
    /\ last.res = "InvalidIndex"
    /\ last.idx = 2
    /\ Len(Stored(file)) = 2
    /\ LET i == FirstIndex(Stored(file), last.id)
       IN  i # 0 /\ Len(ItemsOf(Stored(file)[i].doc)) = 2

\* C7: a successful update_line_item(id, index, partial_fields) changes the
\* keys of partial_fields in line item index of order id and that order's
\* updated_at, and nothing else in the collection.
C7_UpdateLineItemFrame ==
    (last.op = "update_line_item" /\ last.res = "ok") =>
        LET old == Stored(prev)
            new == Stored(file)
            i == last.pos
            m == last.idx + 1
        IN  /\ i = FirstIndex(old, last.id)
            /\ Len(new) = Len(old)
            /\ \A j \in 1..Len(old) : j # i => new[j] = old[j]
            /\ new[i].sn = old[i].sn
            /\ DOMAIN new[i].doc = DOMAIN old[i].doc
            /\ \A k \in DOMAIN old[i].doc :
                   k \notin {"line_items", "updated_at"} => new[i].doc[k] = old[i].doc[k]
            /\ Len(ItemsOf(new[i].doc)) = Len(ItemsOf(old[i].doc))
            /\ \A n \in 1..Len(ItemsOf(old[i].doc)) :
                   n # m => ItemsOf(new[i].doc)[n] = ItemsOf(old[i].doc)[n]
            /\ LET was == ItemsOf(old[i].doc)[m]
                   is == ItemsOf(new[i].doc)[m]
               IN  /\ DOMAIN is = DOMAIN was \cup DOMAIN last.upd
                   /\ \A k \in DOMAIN is :
                          is[k] = IF k \in DOMAIN last.upd THEN last.upd[k] ELSE was[k]

C7_Witness ==
    /\ last.op = "update_line_item"
    /\ last.res = "ok"
    /\ last.idx = 0
    /\ last.pos = 2
    /\ Len(ItemsOf(Stored(file)[2].doc)) = 2
    /\ Len(ItemsOf(Stored(file)[1].doc)) = 2

\* C8: a successful update or update_line_item sets the order's updated_at to
\* the time of the call, whatever partial_fields holds, and that time is not
\* before the updated_at the order had.
C8_UpdatedAtIsTimeOfCall ==
    /\ \A i \in 1..Len(Stored(file)) :
           LET u == Stored(file)[i].doc["updated_at"]
           IN  u[1] = "iso" /\ u[2] <= clock
    /\ (last.op \in {"update", "update_line_item"} /\ last.res = "ok") =>
           /\ last.t = clock
           /\ Stored(file)[last.pos].doc["updated_at"] = IsoString(last.t)
           /\ Stored(prev)[last.pos].doc["updated_at"][2] <= last.t

C8_Witness ==
    /\ last.op = "update"
    /\ last.res = "ok"
    /\ "updated_at" \in DOMAIN last.upd
    /\ Stored(prev)[last.pos].doc["updated_at"] # Stored(prev)[last.pos].doc["created_at"]

\* C9: the created_at of an order is never changed after create.
C9_CreatedAtSetOnce ==
    \A i \in 1..Len(Stored(prev)), j \in 1..Len(Stored(file)) :
        Stored(prev)[i].sn = Stored(file)[j].sn
            => Stored(file)[j].doc["created_at"] = Stored(prev)[i].doc["created_at"]

\* C10: list() returns the orders created and not deleted (nor destroyed with
\* the file), in creation order; update and update_line_item leave the
\* sequence of orders as it is; on a missing, invalid or unreadable file
\* list() returns the empty sequence and does not raise.
C10_ListIsCreatedNotDeleted ==
    LET r == get_all_sales_orders(file)
        sns == Serials(r.body)
    IN  /\ r.status = 200
        /\ \A i, j \in 1..Len(sns) : i < j => sns[i] < sns[j]
        /\ Range(sns) = (1..nextId) \ (deleted \cup lost)
        /\ file.st \in {"missing", "invalid", "unreadable"} => r.body = <<>>
        /\ (last.op \in {"update", "update_line_item"})
               => Serials(Stored(file)) = Serials(Stored(prev))
        /\ last.op = "list" => last.items = r.body

C10_Witness ==
    /\ last.op = "list"
    /\ Len(last.items) = 1
    /\ deleted = {1}
    /\ nextId = 2

----------------------------------------------------------------------------
(* Properties of the store under concurrent callers *)

Quiescent == \A p \in Writers : pc[p] = "idle"

Holds(x, orders) ==
    CASE x[1] = "exists" -> \E i \in 1..Len(orders) : orders[i].sn = x[2]
      [] x[1] = "absent" -> \A i \in 1..Len(orders) : orders[i].sn # x[2]
      [] x[1] = "has" ->
            \E i \in 1..Len(orders) :
                /\ orders[i].sn = x[2]
                /\ x[3] \in DOMAIN orders[i].doc
                /\ orders[i].doc[x[3]] = x[4]
      [] OTHER ->
            \E i \in 1..Len(orders) :
                /\ orders[i].sn = x[2]
                /\ x[3] + 1 <= Len(ItemsOf(orders[i].doc))
                /\ x[4] \in DOMAIN ItemsOf(orders[i].doc)[x[3] + 1]
                /\ ItemsOf(orders[i].doc)[x[3] + 1][x[4]] = x[5]

\* C1: no update is lost: once the mutating calls of the callers have
\* returned, the stored collection shows the effect of every one that
\* returned successfully.
C1_NoLostUpdate ==
    Quiescent => \A x \in expect : Holds(x, Stored(file))

\* C2: a reader during a mutation sees each order that exists before and
\* after it, in its old state or in its new state.
C2_ReaderSeesOldOrNew ==
    seen.during =>
        \A i \in 1..Len(seen.old), j \in 1..Len(seen.new) :
            seen.old[i].sn = seen.new[j].sn =>
                \E k \in 1..Len(seen.got) :
                    /\ seen.got[k].sn = seen.old[i].sn
                    /\ seen.got[k].doc \in {seen.old[i].doc, seen.new[j].doc}

----------------------------------------------------------------------------
(* The request layer over the store: PATCH /sales-orders/{id} and *)
(* PATCH /sales-orders/{id}/line-items/{item_index}.  Each handler first *)
(* looks the order up and then calls the store; the two are separate reads *)
(* of the file, and another worker's call may come between them. *)

\* the status of the response when the existence check ends the request, 0
\* when the handler goes on to the store call
ExistenceCheck(f, id) ==
    LET g == get_sales_order_by_id(f, id)
    IN  [file |-> g.file,
         res |-> IF g.res # "ok" THEN g.res ELSE IF g.found THEN "ok" ELSE "NotFound",
         status |-> IF g.res # "ok" THEN 500 ELSE IF g.found THEN 0 ELSE 404]

\* update_order: a ValueError of the store is caught by `except Exception`
update_order(res) == IF res = "ok" THEN 200 ELSE 500

\* update_line_item_endpoint: a ValueError of the store becomes 400
update_line_item_endpoint(res) ==
    IF res = "ok" THEN 200
    ELSE IF res \in {"NotFound", "InvalidIndex"} THEN 400
    ELSE 500

PatchRequests ==
    {[op |-> "update", id |-> id, idx |-> 0, upd |-> upd]
        : id \in Ids, upd \in ConcOrderUpdates}
    \cup {[op |-> "update_line_item", id |-> id, idx |-> idx, upd |-> upd]
        : id \in Ids, idx \in -1..MaxIndex, upd \in ConcItemUpdates}

\* a PATCH request arrives: the handler's get_sales_order_by_id
BeginPatch ==
    /\ req.pc \in {"idle", "done"}
    /\ \E q \in PatchRequests :
         LET c == ExistenceCheck(file, q.id)
         IN  /\ file' = c.file
             /\ req' = [pc |-> IF c.status = 0 THEN "checked" ELSE "done",
                        op |-> q.op, id |-> q.id, idx |-> q.idx, upd |-> q.upd,
                        res |-> c.res, status |-> c.status]
    /\ UNCHANGED <<clock, nextId>>
    /\ UNCHANGED seqVars
    /\ UNCHANGED concVars
    /\ UNCHANGED <<dbVars, pureVars>>

\* the handler's call of the store, and its response
FinishPatch ==
    /\ req.pc = "checked"
    /\ \E t \in Now(clock) :
         LET r == IF req.op = "update"
                  THEN update_sales_order(file, req.id, req.upd, t)
                  ELSE update_line_item(file, req.id, req.idx, req.upd, t)
         IN  /\ file' = r.file
             /\ prev' = file
             /\ clock' = IF r.res = "ok" THEN t ELSE clock
             /\ last' = Call(req.op, req.id, req.idx, req.upd, None, <<>>, r, t, t)
             /\ req' = [req EXCEPT !.pc = "done", !.res = r.res,
                           !.status = IF req.op = "update" THEN update_order(r.res)
                                      ELSE update_line_item_endpoint(r.res)]
    /\ UNCHANGED <<nextId, deleted, lost>>
    /\ UNCHANGED concVars
    /\ UNCHANGED <<dbVars, pureVars>>

RequestNext == Create \/ Delete \/ Damage \/ BeginPatch \/ FinishPatch

RequestSpec == Init /\ [][RequestNext]_vars

\* C11: a request that ends because no order has the id is answered with the
\* not-found response (404) and one that ends because the index is out of
\* range with the invalid-index response (400), also when the order goes
\* away between the handler's existence check and its store call.
C11_NotFoundAndInvalidIndexDistinct ==
    req.pc = "done" =>
        /\ req.res = "NotFound" => req.status = 404
        /\ req.res = "InvalidIndex" => req.status = 400

----------------------------------------------------------------------------
(* The database backend: services/sales_order_service.py.  db maps the ids *)
(* of the stored orders to their documents.  match_sales_order_items reads *)
(* the order, asks the batch matching service, merges the reply into the *)
(* line items in memory and writes them back with one update_one. *)

\* {"match": ..., "score": ...}, an element of a ranked sequence
Candidate(m, n) == [match |-> Str(m), score |-> Num(n)]

Candidates == {Candidate("Hex Bolt", 90), Candidate("Wing Bolt", 80),
               Candidate("Hex Nut", 95)}

\* ranked sequences of at most MaxMatches candidates, none twice, in any order
\* of score
RankedSeqs ==
    UNION {{s \in [1..n -> Candidates] : \A i, j \in 1..n : i # j => s[i] # s[j]}
              : n \in 0..MaxMatches}

QueryTexts == {Str("Bolt"), Str("Nut")}

\* the "results" of a reply of the matching service: request text -> ranked
\* sequence, for some of the texts
MatchResults == UNION {[T -> RankedSeqs] : T \in SUBSET QueryTexts}

\* line items as create_sales_order of the service stores them
DbItemBolt == ("Request Item" :> Str("Bolt")) @@ ("Quantity" :> Num(10))
              @@ ("matched_item" :> None) @@ ("match_score" :> None)
              @@ ("alternate_matches" :> List(<<>>))
DbItemBoltAgain == ("Request Item" :> Str("Bolt")) @@ ("Quantity" :> Num(3))
                   @@ ("matched_item" :> Str("Wing Bolt")) @@ ("match_score" :> Num(80))
                   @@ ("alternate_matches" :> List(<<Candidate("Hex Bolt", 90)>>))
DbItemNut == ("Request Item" :> Str("Nut")) @@ ("Quantity" :> Num(4))
             @@ ("matched_item" :> Str("Hex Nut")) @@ ("match_score" :> Num(95))
             @@ ("alternate_matches" :> List(<<>>))

DbItemLists == UNION {[1..n -> {DbItemBolt, DbItemBoltAgain, DbItemNut}]
                         : n \in 0..MaxLineItems}

DbOrder(n, items) ==
    ("_id" :> Uuid(n)) @@ ("file_name" :> Str("a.pdf"))
    @@ ("line_items" :> List(items))
    @@ ("created_at" :> Datetime(0)) @@ ("updated_at" :> Datetime(0))
    @@ ("status" :> Str("pending"))

\* db.sales_orders.find_one({"_id": id})
find_one(d, id) == IF id \in DOMAIN d THEN [found |-> TRUE, doc |-> d[id]]
                   ELSE [found |-> FALSE, doc |-> EmptyDict]

\* db.sales_orders.update_one({"_id": id}, {"$set": fields}): no document
\* matched is not an error
update_one(d, id, fields) ==
    IF id \in DOMAIN d THEN [d EXCEPT ![id] = Merge(@, fields)] ELSE d

\* the replies of the batch matching API as match_batch_items sees them
Replies ==
    {[kind |-> "unreachable", results |-> <<>>],
     [kind |-> "status503", results |-> <<>>]}
    \cup {[kind |-> "ok", results |-> r] : r \in MatchResults}

\* match_batch_items: httpx.RequestError and a status other than 200 both
\* leave as HTTPException (the latter re-raised by `except Exception` as 500)
match_batch_items(reply) ==
    IF reply.kind = "ok"
    THEN [raised |-> FALSE, status |-> 200, results |-> reply.results]
    ELSE [raised |-> TRUE, status |-> 500, results |-> <<>>]

\* match_results.get(request_item, [])
Lookup(match_results, request_item) ==
    IF request_item \in DOMAIN match_results THEN match_results[request_item] ELSE <<>>

\* a variant that keeps the best match among the alternates
aggregate_item_keeps_first(item, match_results) ==
    LET matches == Lookup(match_results, item["Request Item"])
    IN  IF matches # <<>>
        THEN Merge(item, ("matched_item" :> matches[1].match)
                         @@ ("match_score" :> matches[1].score)
                         @@ ("alternate_matches" :> List(matches)))
        ELSE Merge(item, ("matched_item" :> None) @@ ("match_score" :> None)
                         @@ ("alternate_matches" :> List(<<>>)))

\* the body of the loop over sales_order["line_items"]
aggregate_item(item, match_results) ==
    LET matches == Lookup(match_results, item["Request Item"])
    IN  IF matches # <<>>
        THEN Merge(item, ("matched_item" :> matches[1].match)
                         @@ ("match_score" :> matches[1].score)
                         @@ ("alternate_matches" :>
                               List(IF Len(matches) > 1 THEN Tail(matches) ELSE <<>>)))
        ELSE Merge(item, ("matched_item" :> None) @@ ("match_score" :> None)
                         @@ ("alternate_matches" :> List(<<>>)))

aggregate(line_items, match_results) ==
    [i \in 1..Len(line_items) |-> aggregate_item(line_items[i], match_results)]

\* a variant that records the failure of the matching service in the order
match_sales_order_items_marks_failed(items, reply, t) ==
    LET m == match_batch_items(reply)
    IN  IF m.raised
        THEN [status |-> m.status, write |-> TRUE,
              set |-> ("status" :> Str("match_failed")) @@ ("updated_at" :> Datetime(t))]
        ELSE [status |-> 200, write |-> TRUE,
              set |-> ("line_items" :> List(aggregate(items, m.results)))
                      @@ ("updated_at" :> Datetime(t))]

\* match_sales_order_items from the reply of the matching service on: the
\* status it ends with when it raises, and the "$set" document of its
\* update_one when it reaches it
match_sales_order_items(items, reply, t) ==
    LET m == match_batch_items(reply)
    IN  IF m.raised
        THEN [status |-> m.status, write |-> FALSE, set |-> EmptyDict]
        ELSE [status |-> 200, write |-> TRUE,
              set |-> ("line_items" :> List(aggregate(items, m.results)))
                      @@ ("updated_at" :> Datetime(t))]

\* the call starts: find_one, 404 when there is no such order
AggFind ==
    /\ agg.pc = "idle"
    /\ \E id \in Ids :
         LET g == find_one(db, id)
         IN  agg' = [pc |-> IF g.found THEN "found" ELSE "failed",
                     id |-> id, before |-> db,
                     items |-> IF g.found THEN g.doc["line_items"][2] ELSE <<>>,
                     reply |-> [kind |-> "none", results |-> <<>>],
                     set |-> EmptyDict,
                     status |-> IF g.found THEN 0 ELSE 404,
                     other |-> agg.other]
    /\ UNCHANGED <<file, clock, nextId, db>>
    /\ UNCHANGED <<seqVars, concVars, reqVars, pureVars>>

\* the matching service replies, or fails to; the merge in memory
AggMatch ==
    /\ agg.pc = "found"
    /\ \E reply \in Replies, t \in Now(clock) :
         LET r == match_sales_order_items(agg.items, reply, t)
         IN  /\ agg' = [agg EXCEPT !.pc = IF r.write THEN "merged" ELSE "failed",
                                   !.reply = reply, !.set = r.set,
                                   !.status = r.status]
             /\ clock' = IF r.write THEN t ELSE clock
    /\ UNCHANGED <<file, nextId, db>>
    /\ UNCHANGED <<seqVars, concVars, reqVars, pureVars>>

\* update_one with the merged line items and the new updated_at
AggWrite ==
    /\ agg.pc = "merged"
    /\ db' = update_one(db, agg.id, agg.set)
    /\ agg' = [agg EXCEPT !.pc = IF agg.status = 200 THEN "written" ELSE "failed"]
    /\ UNCHANGED <<file, clock, nextId>>
    /\ UNCHANGED <<seqVars, concVars, reqVars, pureVars>>

\* the closing find_one: the call returns the stored order
AggReturn ==
    /\ agg.pc = "written"
    /\ agg' = [agg EXCEPT !.pc = "returned"]
    /\ UNCHANGED <<file, clock, nextId, db>>
    /\ UNCHANGED <<seqVars, concVars, reqVars, pureVars>>

\* one order stored, with any of the line item lists, or none
MatchInit ==
    /\ file = [st |-> "missing", data |-> <<>>]
    /\ clock = 0
    /\ nextId = 0
    /\ prev = file
    /\ last = NoCall
    /\ deleted = {}
    /\ lost = {}
    /\ ConcInit
    /\ ExtraInit
    /\ given = <<>>
    /\ db \in {[i \in {} |-> EmptyDict]}
              \cup {Uuid(1) :> DbOrder(1, items) : items \in DbItemLists}

MatchNext == AggFind \/ AggMatch \/ AggWrite \/ AggReturn

MatchSpec == MatchInit /\ [][MatchNext]_vars

\* the match data of a line item
MatchData(item) ==
    <<item["matched_item"], item["match_score"], item["alternate_matches"]>>

\* C12: once the reply of the matching service is merged, each line item
\* whose request text is no key of match_results, or a key of an empty
\* sequence, has matched_item and match_score null and alternate_matches
\* empty; every other has the match and score of the first element and the
\* remaining elements, in their order, as alternate_matches.  Line items of
\* the same text get the same match data; the number and order of the line
\* items and their other fields are as before; the stored order holds the
\* merged line items once update_one has run.
C12_AggregationByExactText ==
    (agg.pc \in {"merged", "written", "returned"}) =>
        LET old == agg.items
            new == agg.set["line_items"][2]
            res == agg.reply.results
        IN  /\ Len(new) = Len(old)
            /\ \A i \in 1..Len(old) :
                   LET key == old[i]["Request Item"]
                   IN  /\ \A k \in DOMAIN old[i] \ {"matched_item", "match_score",
                                                     "alternate_matches"} :
                              k \in DOMAIN new[i] /\ new[i][k] = old[i][k]
                       /\ (key \notin DOMAIN res \/ res[key] = <<>>)
                              => MatchData(new[i]) = <<None, None, List(<<>>)>>
                       /\ (key \in DOMAIN res /\ res[key] # <<>>)
                              => /\ new[i]["matched_item"] = res[key][1].match
                                 /\ new[i]["match_score"] = res[key][1].score
                                 /\ new[i]["alternate_matches"] =
                                        List([m \in 1..(Len(res[key]) - 1) |-> res[key][m + 1]])
            /\ \A i, j \in 1..Len(old) :
                   old[i]["Request Item"] = old[j]["Request Item"]
                       => MatchData(new[i]) = MatchData(new[j])
            /\ (agg.pc \in {"written", "returned"})
                   => db[agg.id]["line_items"] = List(new)

C12_Witness ==
    /\ agg.pc = "returned"
    /\ Len(agg.items) = 2
    /\ agg.items[1] # agg.items[2]
    /\ agg.items[1]["Request Item"] = agg.items[2]["Request Item"]
    /\ Lookup(agg.reply.results, agg.items[1]["Request Item"])
           = <<Candidate("Wing Bolt", 80), Candidate("Hex Bolt", 90)>>
    /\ Str("Nut") \notin DOMAIN agg.reply.results

\* C13: when the matching service cannot be reached or answers with a status
\* other than 200, the call ends with an error status and the stored orders
\* are as they were when the call started.
C13_FailedMatchChangesNothing ==
    (agg.pc = "failed" /\ agg.reply.kind \in {"unreachable", "status503"}) =>
        /\ agg.status >= 400
        /\ db = agg.before

C13_Witness ==
    /\ agg.pc = "failed"
    /\ agg.reply.kind = "status503"
    /\ Len(agg.items) = 2
    /\ db = agg.before
    /\ db[agg.id]["line_items"][2][2]["matched_item"] = Str("Hex Nut")

----------------------------------------------------------------------------
(* The database backend under several callers.  Each await of *)
(* match_sales_order_items lets the event loop, or another worker, run *)
(* other requests; update_sales_order of the service is one update_one and *)
(* so takes effect at one instant. *)

\* update_sales_order of services/sales_order_service.py: updated_at is put
\* into updates, then one update_one; 404 when no document matched
db_update_sales_order(d, id, updates, t) ==
    LET set == Merge(updates, "updated_at" :> Datetime(t))
    IN  [status |-> IF id \in DOMAIN d THEN 200 ELSE 404,
         set |-> set,
         db |-> update_one(d, id, set)]

\* line_items with the Quantity of the i-th changed
WithQuantity(items, i, q) ==
    [items EXCEPT ![i] = Merge(@, "Quantity" :> q)]

\* the updates of another caller: a change of status, or the line items as
\* stored with one Quantity edited
DbUpdates(d, id) ==
    {"status" :> Str("matched")}
    \cup (IF id \in DOMAIN d
          THEN {"line_items" :> List(WithQuantity(d[id]["line_items"][2], i, Num(12)))
                   : i \in 1..Len(d[id]["line_items"][2])}
          ELSE {})

\* another caller's update_sales_order, once the aggregation has started: at
\* most MaxUpdates of them
UpdateSalesOrder ==
    /\ agg.pc \in {"found", "merged", "written"}
    /\ Len(agg.other) < MaxUpdates
    /\ \E id \in Ids, t \in Now(clock) :
         \E updates \in DbUpdates(db, id) :
            LET r == db_update_sales_order(db, id, updates, t)
            IN  /\ db' = r.db
                /\ clock' = t
                /\ agg' = [agg EXCEPT !.other =
                             Append(@, [at |-> agg.pc, id |-> id,
                                        status |-> r.status, set |-> r.set])]
    /\ UNCHANGED <<file, nextId>>
    /\ UNCHANGED <<seqVars, concVars, reqVars, pureVars>>

MatchRaceNext == MatchNext \/ UpdateSalesOrder

MatchRaceSpec == MatchInit /\ [][MatchRaceNext]_vars

MatchKeys == {"matched_item", "match_score", "alternate_matches"}

\* the fields of an update as found in a stored document; of line items, the
\* fields that matching does not set
StillPresent(set, doc) ==
    \A k \in DOMAIN set \ {"updated_at"} :
        IF k = "line_items"
        THEN /\ Len(doc[k][2]) = Len(set[k][2])
             /\ \A i \in 1..Len(set[k][2]) :
                    \A f \in DOMAIN set[k][2][i] \ MatchKeys :
                        doc[k][2][i][f] = set[k][2][i][f]
        ELSE doc[k] = set[k]

\* the updates of the same order that other callers completed between the
\* find_one and the update_one of the aggregation
Between == {i \in 1..Len(agg.other) :
               /\ agg.other[i].at \in {"found", "merged"}
               /\ agg.other[i].id = agg.id
               /\ agg.other[i].status = 200}

\* C21: when the aggregation has written (and no other update followed the
\* write), each update of the same order that another caller completed
\* between the aggregation's find_one and its update_one, and that no later
\* one of them replaced, is still in the stored order.
C21_OtherUpdateSurvivesAggregation ==
    (/\ agg.pc \in {"written", "returned"}
     /\ \A i \in 1..Len(agg.other) : agg.other[i].at \in {"found", "merged"})
        => \A i \in Between :
               (\A j \in Between : j > i =>
                    DOMAIN agg.other[j].set \cap DOMAIN agg.other[i].set = {"updated_at"})
                   => StillPresent(agg.other[i].set, db[agg.id])

----------------------------------------------------------------------------
(* utils/llm_utils.py: normalize_fields_manually.  Numbers of raw items are *)
(* ints (Num) or floats; a float is kept as the fraction n/d in lowest *)
(* terms that it stands for.  NumStr(n) is the str holding the decimal *)
(* numeral of n, the one kind of str that float() accepts here. *)

RECURSIVE Gcd(_, _)
Gcd(a, b) == IF b = 0 THEN a ELSE Gcd(b, a % b)

Float(n, d) == <<"float", n \div Gcd(n, d), d \div Gcd(n, d)>>
NumStr(n) == <<"numstr", n>>

\* isinstance(v, (int, float))
IsNumber(v) == v[1] \in {"num", "float"}

\* float(v) returns for a number and for a numeric str; it raises ValueError
\* for any other str and TypeError for None and for a list
CanFloat(v) == v[1] \in {"num", "float", "numstr"}

ToFloat(v) == IF v[1] = "float" THEN v ELSE Float(v[2], 1)

\* a > b for numbers
Greater(a, b) == ToFloat(a)[2] * ToFloat(b)[3] > ToFloat(b)[2] * ToFloat(a)[3]

Times(a, b) == Float(a[2] * b[2], a[3] * b[3])
Over(a, b) == Float(a[2] * b[3], a[3] * b[2])

\* the first of keys that item has, as the value of `to`; nothing when it has none
RECURSIVE FirstOf(_, _, _)
FirstOf(item, keys, to) ==
    IF keys = <<>> THEN EmptyDict
    ELSE IF Head(keys) \in DOMAIN item THEN to :> item[Head(keys)]
    ELSE FirstOf(item, Tail(keys), to)

\* a variant whose test is Amount >= Quantity
NormalizeTotal_at_least(item) ==
    IF "Total" \in DOMAIN item
    THEN [raised |-> FALSE, out |-> "Total" :> item["Total"]]
    ELSE IF "Amount" \in DOMAIN item /\ "Quantity" \in DOMAIN item
            /\ IsNumber(item["Amount"])
    THEN IF ~IsNumber(item["Quantity"]) THEN [raised |-> TRUE, out |-> EmptyDict]
         ELSE IF ~Greater(item["Quantity"], item["Amount"])
              THEN [raised |-> FALSE, out |-> "Total" :> item["Amount"]]
         ELSE [raised |-> FALSE, out |-> EmptyDict]
    ELSE [raised |-> FALSE, out |-> EmptyDict]

\* "Normalize Total fields": item["Amount"] > item["Quantity"] raises
\* TypeError when Quantity is a str or None
NormalizeTotal(item) ==
    IF "Total" \in DOMAIN item
    THEN [raised |-> FALSE, out |-> "Total" :> item["Total"]]
    ELSE IF "Amount" \in DOMAIN item /\ "Quantity" \in DOMAIN item
            /\ IsNumber(item["Amount"])
    THEN IF ~IsNumber(item["Quantity"]) THEN [raised |-> TRUE, out |-> EmptyDict]
         ELSE IF Greater(item["Amount"], item["Quantity"])
              THEN [raised |-> FALSE, out |-> "Total" :> item["Amount"]]
         ELSE [raised |-> FALSE, out |-> EmptyDict]
    ELSE [raised |-> FALSE, out |-> EmptyDict]

\* "Calculate missing Total if possible"
CalculateTotal(n) ==
    IF "Total" \notin DOMAIN n /\ "Quantity" \in DOMAIN n /\ "Unit Price" \in DOMAIN n
       /\ CanFloat(n["Quantity"]) /\ CanFloat(n["Unit Price"])
    THEN "Total" :> Times(ToFloat(n["Quantity"]), ToFloat(n["Unit Price"]))
    ELSE EmptyDict

\* a variant without the test float(Quantity) > 0, giving the unit price 0.0
\* for a Quantity of 0
CalculateUnitPrice_unguarded(n) ==
    IF "Unit Price" \notin DOMAIN n /\ "Quantity" \in DOMAIN n /\ "Total" \in DOMAIN n
       /\ CanFloat(n["Quantity"]) /\ CanFloat(n["Total"])
    THEN "Unit Price" :> IF ToFloat(n["Quantity"])[2] = 0 THEN Float(0, 1)
                         ELSE Over(ToFloat(n["Total"]), ToFloat(n["Quantity"]))
    ELSE EmptyDict

\* "Calculate missing Unit Price if possible"
CalculateUnitPrice(n) ==
    IF "Unit Price" \notin DOMAIN n /\ "Quantity" \in DOMAIN n /\ "Total" \in DOMAIN n
       /\ CanFloat(n["Quantity"]) /\ ToFloat(n["Quantity"])[2] > 0
       /\ CanFloat(n["Total"])
    THEN "Unit Price" :> Over(ToFloat(n["Total"]), ToFloat(n["Quantity"]))
    ELSE EmptyDict

CanonicalKeys == {"Quantity", "Unit Price", "Total", "Request Item"}

\* "Preserve other fields that might be useful"
Preserved(item, n) ==
    [k \in (DOMAIN item \ DOMAIN n) \ CanonicalKeys |-> item[k]]

\* one pass of the loop of normalize_fields_manually
normalize_item(item) ==
    LET total == NormalizeTotal(item)
        n1 == FirstOf(item, <<"Request Item", "Item Description", "Description">>,
                      "Request Item")
              @@ FirstOf(item, <<"Quantity", "Qty">>, "Quantity")
              @@ FirstOf(item, <<"Unit Price", "Price", "Unit Cost">>, "Unit Price")
              @@ total.out
        n2 == n1 @@ CalculateTotal(n1)
        n3 == n2 @@ CalculateUnitPrice(n2)
    IN  [raised |-> total.raised, out |-> n3 @@ Preserved(item, n3)]

normalize_fields_manually(items) ==
    LET each == [i \in 1..Len(items) |-> normalize_item(items[i])]
    IN  IF \E i \in 1..Len(items) : each[i].raised
        THEN [raised |-> TRUE, out |-> <<>>]
        ELSE [raised |-> FALSE, out |-> [i \in 1..Len(items) |-> each[i].out]]

\* the values a raw item may hold under a key
RawValues == {Num(n) : n \in 0..MaxNum} \cup {NumStr(2), Str("abc"), None}

DescriptionFields ==
    {EmptyDict,
     "Request Item" :> Str("Bolt"),
     ("Request Item" :> Str("Bolt")) @@ ("Description" :> Str("Washer")),
     ("Item Description" :> Str("Nut")) @@ ("Description" :> Str("Washer"))}

QuantityFields ==
    {EmptyDict, ("Quantity" :> Num(1)) @@ ("Qty" :> Num(2))}
    \cup {"Quantity" :> v : v \in RawValues}
    \cup {"Qty" :> v : v \in {Num(1), NumStr(2)}}

PriceFields ==
    {EmptyDict, "Price" :> Num(2), "Unit Cost" :> Num(1),
     ("Price" :> Num(2)) @@ ("Unit Cost" :> Num(1)),
     ("Unit Price" :> Num(1)) @@ ("Price" :> Num(2))}
    \cup {"Unit Price" :> v : v \in RawValues}

TotalFields ==
    {EmptyDict, ("Total" :> Num(1)) @@ ("Amount" :> Num(2))}
    \cup {"Total" :> v : v \in RawValues}
    \cup {"Amount" :> v : v \in RawValues}

OtherFields ==
    {EmptyDict,
     ("matched_item" :> Str("Hex Bolt")) @@ ("match_score" :> Num(90)),
     "Unit" :> Str("pcs")}

\* the records the extraction service may return
RawItems ==
    {d @@ q @@ p @@ t @@ o : d \in DescriptionFields, q \in QuantityFields,
                             p \in PriceFields, t \in TotalFields, o \in OtherFields}

\* the items of the longer lists
ListedItems ==
    {("Request Item" :> Str("Bolt")) @@ ("Quantity" :> Num(2)) @@ ("Amount" :> Num(1)),
     ("Description" :> Str("Washer")) @@ ("Qty" :> Num(1)) @@ ("Amount" :> Num(2)),
     ("Request Item" :> Str("Nut")) @@ ("Quantity" :> Str("abc")) @@ ("Amount" :> Num(2))}

RawLists ==
    {<<>>} \cup {<<x>> : x \in RawItems}
    \cup UNION {[1..n -> ListedItems] : n \in 2..MaxItems}

\* normalize_fields_manually(items)
Normalize ==
    /\ result.op = "none"
    /\ LET r == normalize_fields_manually(given)
       IN  result' = [NoResult EXCEPT !.op = "normalize", !.raised = r.raised,
                                     !.out = r.out, !.source = "fallback"]
    /\ UNCHANGED <<file, clock, nextId, given>>
    /\ UNCHANGED <<seqVars, concVars, reqVars, dbVars>>

\* normalize_fields_manually applied to what it returned
NormalizeAgain ==
    /\ result.op = "normalize"
    /\ ~result.raised
    /\ LET r == normalize_fields_manually(result.out)
       IN  result' = [NoResult EXCEPT !.op = "normalize_twice", !.raised = r.raised,
                                     !.out = r.out, !.first = result.out,
                                     !.source = "fallback"]
    /\ UNCHANGED <<file, clock, nextId, given>>
    /\ UNCHANGED <<seqVars, concVars, reqVars, dbVars>>

\* what client.chat.completions.create may do
LlmReplies ==
    {LlmReply("raises", FALSE, FALSE, FALSE, FALSE, <<>>),
     \* "I cannot help with that."
     LlmReply("text", FALSE, FALSE, FALSE, FALSE, <<>>),
     \* "Here you are: [{"Request Item": "Bolt"
     LlmReply("text", TRUE, FALSE, FALSE, FALSE, <<>>),
     \* "[the items, normalized]", or
     \* "{"items": [{"Request Item": "Bolt"}], "notes": []}"
     LlmReply("text", TRUE, TRUE, FALSE, FALSE, <<>>),
     \* "[1, 2]"
     LlmReply("text", TRUE, TRUE, TRUE, FALSE, <<Num(1), Num(2)>>),
     \* "[]"
     LlmReply("text", TRUE, TRUE, TRUE, TRUE, <<>>),
     \* "[{"Request Item": "Bolt", "Quantity": 2, "Unit Price": 1, "Total": 2}]"
     LlmReply("text", TRUE, TRUE, TRUE, TRUE,
              <<("Request Item" :> Str("Bolt")) @@ ("Quantity" :> Num(2))
                @@ ("Unit Price" :> Num(1)) @@ ("Total" :> Num(2))>>)}

\* extract_json_from_response: ValueError without a '[' or a ']', and
\* json.loads raises on a slice that is not JSON
extract_json_from_response(reply) ==
    IF ~reply.open \/ ~reply.close THEN [raised |-> TRUE, value |-> <<>>]
    ELSE IF ~reply.valid THEN [raised |-> TRUE, value |-> <<>>]
    ELSE [raised |-> FALSE, value |-> reply.value]

process_extracted_data(items, reply) ==
    LET e == extract_json_from_response(reply)
        manual == normalize_fields_manually(items)
    IN  IF reply.kind = "raises" \/ e.raised
        THEN [raised |-> manual.raised, out |-> manual.out, source |-> "fallback"]
        ELSE [raised |-> FALSE, out |-> e.value, source |-> "enrichment"]

\* process_extracted_data(items)
ProcessExtractedData ==
    /\ result.op = "none"
    /\ \E reply \in LlmReplies :
         LET r == process_extracted_data(given, reply)
         IN  result' = [NoResult EXCEPT !.op = "process", !.raised = r.raised,
                                       !.out = r.out, !.source = r.source,
                                       !.llm = reply]
    /\ UNCHANGED <<file, clock, nextId, given>>
    /\ UNCHANGED <<seqVars, concVars, reqVars, dbVars>>

NormalizeInit ==
    /\ file = [st |-> "missing", data |-> <<>>]
    /\ clock = 0
    /\ nextId = 0
    /\ prev = file
    /\ last = NoCall
    /\ deleted = {}
    /\ lost = {}
    /\ ConcInit
    /\ ExtraInit
    /\ db = [i \in {} |-> EmptyDict]
    /\ given \in RawLists

NormalizeNext == Normalize \/ NormalizeAgain \/ ProcessExtractedData

NormalizeSpec == NormalizeInit /\ [][NormalizeNext]_vars

\* C14: normalize_fields_manually raises for no list of raw items, and
\* returns one record per item.
C14_NormalizeNeverRaises ==
    result.op = "normalize" => ~result.raised /\ Len(result.out) = Len(given)

\* the raw items without a Total key whose Amount and Quantity are numbers
AmountAndQuantity(item) ==
    /\ "Total" \notin DOMAIN item
    /\ "Amount" \in DOMAIN item /\ "Quantity" \in DOMAIN item
    /\ IsNumber(item["Amount"]) /\ IsNumber(item["Quantity"])

\* C15: for a raw item without a Total key whose Amount and Quantity are
\* numbers, the normalized record has Total = Amount when Amount > Quantity;
\* when Amount <= Quantity its Total, if it has one, is Quantity times the
\* unit price and never taken from Amount; its Quantity is the input's.
\* (A call returns no record at all when it raises on another item of the
\* list; on a list of such items only, it does not raise.)
C15_AmountIsTotalIffGreater ==
    (result.op = "normalize") =>
        /\ (\A i \in 1..Len(given) : AmountAndQuantity(given[i])) => ~result.raised
        /\ ~result.raised =>
            \A i \in 1..Len(given) :
                AmountAndQuantity(given[i]) =>
                    LET item == given[i]
                        price == FirstOf(item, <<"Unit Price", "Price", "Unit Cost">>, "p")
                    IN  /\ result.out[i]["Quantity"] = item["Quantity"]
                        /\ Greater(item["Amount"], item["Quantity"])
                              => /\ "Total" \in DOMAIN result.out[i]
                                 /\ result.out[i]["Total"] = item["Amount"]
                        /\ ~Greater(item["Amount"], item["Quantity"])
                              => \/ "Total" \notin DOMAIN result.out[i]
                                 \/ /\ "p" \in DOMAIN price
                                    /\ CanFloat(price["p"])
                                    /\ result.out[i]["Total"] =
                                          Times(ToFloat(item["Quantity"]),
                                                ToFloat(price["p"]))

C15_Witness ==
    /\ result.op = "normalize"
    /\ Len(given) = 1
    /\ AmountAndQuantity(given[1])
    /\ given[1]["Amount"] = given[1]["Quantity"]
    /\ given[1]["Amount"] = Num(1)
    /\ "Total" \notin DOMAIN result.out[1]
    /\ "Amount" \in DOMAIN result.out[1]

\* the Total of a raw item after synonym resolution: its Total, or its Amount
\* when that is a number greater than its Quantity
ResolvedTotal(item) ==
    IF "Total" \in DOMAIN item THEN "v" :> item["Total"]
    ELSE IF AmountAndQuantity(item) /\ Greater(item["Amount"], item["Quantity"])
    THEN "v" :> item["Amount"]
    ELSE EmptyDict

\* key k of record out is there with value v["v"], or not there when v is empty
Exactly(out, k, v) ==
    IF "v" \in DOMAIN v THEN k \in DOMAIN out /\ out[k] = v["v"]
    ELSE k \notin DOMAIN out

\* C16: in each record normalize_fields_manually returns, Quantity, Unit
\* Price and Total that synonym resolution found are the input's values;
\* a missing Total is Quantity * Unit Price when both are there and numeric,
\* and stays missing otherwise; a missing Unit Price is Total / Quantity
\* when both are there and numeric and Quantity > 0, and stays missing
\* otherwise (Quantity = 0 included); never are both derived.
C16_DerivationOnlyOfMissingField ==
    (result.op = "normalize" /\ ~result.raised) =>
        \A i \in 1..Len(given) :
            LET item == given[i]
                out == result.out[i]
                q == FirstOf(item, <<"Quantity", "Qty">>, "v")
                p == FirstOf(item, <<"Unit Price", "Price", "Unit Cost">>, "v")
                t == ResolvedTotal(item)
                has(x) == "v" \in DOMAIN x
                num(x) == has(x) /\ CanFloat(x["v"])
            IN  /\ Exactly(out, "Quantity", q)
                /\ has(p) => Exactly(out, "Unit Price", p)
                /\ has(t) => Exactly(out, "Total", t)
                /\ ~has(t) =>
                      Exactly(out, "Total",
                              IF num(q) /\ num(p)
                              THEN "v" :> Times(ToFloat(q["v"]), ToFloat(p["v"]))
                              ELSE EmptyDict)
                /\ ~has(p) =>
                      Exactly(out, "Unit Price",
                              IF num(q) /\ num(t) /\ Greater(q["v"], Num(0))
                              THEN "v" :> Over(ToFloat(t["v"]), ToFloat(q["v"]))
                              ELSE EmptyDict)
                /\ ~(~has(t) /\ "Total" \in DOMAIN out
                       /\ ~has(p) /\ "Unit Price" \in DOMAIN out)

C16_Witness ==
    /\ result.op = "normalize"
    /\ ~result.raised
    /\ Len(given) = 1
    /\ DOMAIN given[1] = {"Request Item", "Quantity", "Total"}
    /\ given[1]["Quantity"] = Num(0)
    /\ given[1]["Total"] = Num(2)
    /\ "Unit Price" \notin DOMAIN result.out[1]
    /\ result.out[1]["Total"] = Num(2)

\* C17: normalize_fields_manually applied to what it returned returns the
\* same list of records.
C17_NormalizeIdempotent ==
    result.op = "normalize_twice" => ~result.raised /\ result.out = result.first

\* C18: every record normalize_fields_manually returns has the keys
\* matched_item and match_score, with the input's values when the input
\* record has them and null when it does not.
C18_MatchKeysAlwaysPresent ==
    (result.op = "normalize" /\ ~result.raised) =>
        \A i \in 1..Len(given) : \A k \in {"matched_item", "match_score"} :
            /\ k \in DOMAIN result.out[i]
            /\ result.out[i][k] = IF k \in DOMAIN given[i] THEN given[i][k] ELSE None

\* the reply of the enrichment that is a well-formed list of records
WellFormed(reply) ==
    reply.kind = "text" /\ reply.open /\ reply.close /\ reply.valid /\ reply.records

\* C19: when the LLM call fails or its reply is not a well-formed list of
\* key/value records, process_extracted_data returns what
\* normalize_fields_manually returns for the raw items, and does not raise.
C19_FallbackOnMalformedEnrichment ==
    (result.op = "process" /\ ~WellFormed(result.llm)) =>
        /\ ~result.raised
        /\ result.source = "fallback"
        /\ result.out = normalize_fields_manually(given).out

----------------------------------------------------------------------------
(* routers/sales_orders.py: download_sales_order_csv.  In this part a str is *)
(* the sequence of its characters, and Str(cs) a str value of a line item. *)

Comma == ","
Quote == "\""
Newline == "\n"

DigitChars == <<"0", "1", "2", "3", "4", "5", "6", "7", "8", "9">>

\* str(n) for an int n >= 0
RECURSIVE Digits(_)
Digits(n) == IF n < 10 THEN <<DigitChars[n + 1]>>
             ELSE Digits(n \div 10) \o <<DigitChars[(n % 10) + 1]>>

\* hundredths of a float whose value is a whole number of hundredths
Hundredths(x) == (x[2] * 100) \div x[3]

\* str(x) for a float: the shortest decimal that reads back as x
StrFloat(x) ==
    LET h == Hundredths(x)
    IN  Digits(h \div 100) \o <<".">>
        \o (IF h % 10 = 0 THEN <<DigitChars[((h % 100) \div 10) + 1]>>
            ELSE <<DigitChars[((h % 100) \div 10) + 1], DigitChars[(h % 10) + 1]>>)

\* f"{x:.2f}"
TwoDecimals(x) ==
    LET h == Hundredths(x)
    IN  Digits(h \div 100) \o <<".">>
        \o <<DigitChars[((h % 100) \div 10) + 1], DigitChars[(h % 10) + 1]>>

\* str(v)
PyStr(v) ==
    CASE v[1] = "str" -> v[2]
      [] v[1] = "num" -> Digits(v[2])
      [] v[1] = "numstr" -> Digits(v[2])
      [] v[1] = "float" -> StrFloat(v)
      [] OTHER -> <<"N", "o", "n", "e">>

\* item.get(k) is not None
Present(item, k) == k \in DOMAIN item /\ item[k] # None

\* str(item.get(k, "")) if item.get(k) is not None else ""
TextOf(item, k) == IF Present(item, k) THEN PyStr(item[k]) ELSE <<>>

\* s.replace('"', '""')
RECURSIVE DoubleQuotes(_)
DoubleQuotes(s) ==
    IF s = <<>> THEN <<>>
    ELSE (IF Head(s) = Quote THEN <<Quote, Quote>> ELSE <<Head(s)>>)
         \o DoubleQuotes(Tail(s))

Contains(s, c) == \E i \in 1..Len(s) : s[i] = c

\* a variant that wraps the text in quotes without doubling the quotes in it
EscapeText_no_doubling(s) ==
    IF Contains(s, Comma) \/ Contains(s, Quote)
    THEN <<Quote>> \o s \o <<Quote>>
    ELSE s

\* "Escape commas and quotes in text fields"
EscapeText(s) ==
    IF Contains(s, Comma) \/ Contains(s, Quote)
    THEN <<Quote>> \o DoubleQuotes(s) \o <<Quote>>
    ELSE s

\* f"{float(v):.2f}", or str(v) when float(v) raises ValueError or TypeError
Price(v) == IF CanFloat(v) THEN TwoDecimals(ToFloat(v)) ELSE PyStr(v)

\* the five fields of the row of one line item
CsvFields(item) ==
    <<EscapeText(TextOf(item, "Request Item")),
      EscapeText(TextOf(item, "matched_item")),
      IF Present(item, "Quantity") THEN PyStr(item["Quantity"])
      ELSE IF Present(item, "Qty") THEN PyStr(item["Qty"])
      ELSE IF Present(item, "Amount") THEN PyStr(item["Amount"])
      ELSE <<>>,
      IF Present(item, "Unit Price") THEN Price(item["Unit Price"])
      ELSE IF Present(item, "Price") THEN Price(item["Price"])
      ELSE <<>>,
      IF Present(item, "Total") THEN Price(item["Total"]) ELSE <<>> >>

\* f"{request_item},{matched_item},{quantity},{unit_price},{total}\n"
CsvRow(f) ==
    f[1] \o <<Comma>> \o f[2] \o <<Comma>> \o f[3] \o <<Comma>> \o f[4]
    \o <<Comma>> \o f[5] \o <<Newline>>

\* "Request Item,Matched Product,Quantity,Unit Price,Total\n"
CsvHeader ==
    <<"R", "e", "q", "u", "e", "s", "t", " ", "I", "t", "e", "m", Comma,
      "M", "a", "t", "c", "h", "e", "d", " ", "P", "r", "o", "d", "u", "c", "t", Comma,
      "Q", "u", "a", "n", "t", "i", "t", "y", Comma,
      "U", "n", "i", "t", " ", "P", "r", "i", "c", "e", Comma,
      "T", "o", "t", "a", "l", Newline>>

RECURSIVE CsvRows(_)
CsvRows(items) ==
    IF items = <<>> THEN <<>>
    ELSE CsvRow(CsvFields(Head(items))) \o CsvRows(Tail(items))

\* the body of the response for an order that was found
download_sales_order_csv(line_items) ==
    [fields |-> [i \in 1..Len(line_items) |-> CsvFields(line_items[i])],
     csv |-> CsvHeader \o CsvRows(line_items)]

\* the characters the short texts are made of
TextChars == {"a", Comma, Quote, Newline}

\* 'Brass, 1"'
BrassText == <<"B", "r", "a", "s", "s", Comma, " ", "1", Quote>>

Texts == UNION {[1..n -> TextChars] : n \in 0..MaxText} \cup {BrassText}

\* what a stored line item may hold as Request Item and as matched_item
TextFields(k) ==
    {EmptyDict, k :> None, k :> Num(5)} \cup {k :> Str(cs) : cs \in Texts}

\* and under the keys of the three numeric columns
NumberFields ==
    {EmptyDict,
     ("Quantity" :> Num(10)) @@ ("Unit Price" :> Float(5, 2)) @@ ("Total" :> Num(25)),
     ("Qty" :> NumStr(2)) @@ ("Price" :> Num(1)) @@ ("Total" :> None),
     ("Quantity" :> None) @@ ("Amount" :> Num(12)) @@ ("Unit Price" :> Str(<<"a", Comma>>)),
     ("Quantity" :> Float(3, 2)) @@ ("Total" :> Str(<<"a">>))}

CsvItems ==
    {r @@ m @@ n : r \in TextFields("Request Item"), m \in TextFields("matched_item"),
                   n \in NumberFields}

CsvListedItems ==
    {("Request Item" :> Str(BrassText)) @@ ("Quantity" :> Num(10)),
     ("Request Item" :> Str(<<"a">>)) @@ ("matched_item" :> Str(<<"a", Comma, "a">>)),
     ("matched_item" :> Str(<<Quote>>)) @@ ("Total" :> Num(2))}

CsvLists ==
    {<<>>} \cup {<<x>> : x \in CsvItems}
    \cup UNION {[1..n -> CsvListedItems] : n \in 2..MaxItems}

\* GET /sales-orders/{id}/csv for an order with the line items given
DownloadCsv ==
    /\ result.op = "none"
    /\ LET r == download_sales_order_csv(given)
       IN  result' = [NoResult EXCEPT !.op = "csv", !.out = r.csv, !.first = r.fields]
    /\ UNCHANGED <<file, clock, nextId, given>>
    /\ UNCHANGED <<seqVars, concVars, reqVars, dbVars>>

CsvInit ==
    /\ file = [st |-> "missing", data |-> <<>>]
    /\ clock = 0
    /\ nextId = 0
    /\ prev = file
    /\ last = NoCall
    /\ deleted = {}
    /\ lost = {}
    /\ ConcInit
    /\ ExtraInit
    /\ db = [i \in {} |-> EmptyDict]
    /\ given \in CsvLists

CsvNext == DownloadCsv

CsvSpec == CsvInit /\ [][CsvNext]_vars

\* the text with each pair of quotes read as one quote
RECURSIVE Undoubled(_)
Undoubled(s) ==
    IF s = <<>> THEN <<>>
    ELSE IF Len(s) >= 2 /\ s[1] = Quote /\ s[2] = Quote
         THEN <<Quote>> \o Undoubled(Tail(Tail(s)))
    ELSE <<Head(s)>> \o Undoubled(Tail(s))

HowMany(s, c) == Cardinality({i \in 1..Len(s) : s[i] = c})

\* field f is text raw between double quotes, each quote of raw written twice
QuotedForm(f, raw) ==
    /\ Len(f) = Len(raw) + HowMany(raw, Quote) + 2
    /\ f[1] = Quote
    /\ f[Len(f)] = Quote
    /\ Undoubled(SubSeq(f, 2, Len(f) - 1)) = raw

\* C20: in each data row the Request Item and Matched Product fields are the
\* raw text between double quotes with its quotes doubled when the raw text
\* holds a comma or a double quote, and the raw text itself otherwise; the
\* raw text of a missing or null value is empty; the row is the five fields
\* joined by commas.
C20_TextFieldsQuotedIffNeeded ==
    result.op = "csv" =>
        /\ Len(result.first) = Len(given)
        /\ \A i \in 1..Len(given) :
               /\ \A c \in 1..2 :
                      LET k == <<"Request Item", "matched_item">>[c]
                          raw == IF k \in DOMAIN given[i] /\ given[i][k] # None
                                 THEN PyStr(given[i][k]) ELSE <<>>
                          f == result.first[i][c]
                      IN  IF \E j \in 1..Len(raw) : raw[j] \in {Comma, Quote}
                          THEN QuotedForm(f, raw)
                          ELSE f = raw
        /\ Len(given) = 1 => result.out = CsvHeader \o CsvRow(result.first[1])

C20_Witness ==
    /\ result.op = "csv"
    /\ Len(given) = 1
    /\ DOMAIN given[1] = {"Request Item", "matched_item"}
    /\ given[1]["Request Item"] = Str(BrassText)
    /\ given[1]["matched_item"] = None
    /\ result.out = CsvHeader
                     \o <<Quote, "B", "r", "a", "s", "s", Comma, " ", "1", Quote, Quote, Quote,
                          Comma, Comma, Comma, Comma, Newline>>

\* the n-th smallest element of a set of positions
Nth(S, n) == CHOOSE e \in S : Cardinality({x \in S : x < e}) = n - 1

\* a reader of CSV text: a double quote opens or closes a quoted stretch (so a
\* doubled quote inside one leaves it open); outside quoted stretches a comma
\* ends a field and a line break ends a record; text after the last line
\* break is one more record; the fields are kept as written
CsvRecords(s) ==
    LET quoted(i) == Cardinality({j \in 1..(i - 1) : s[j] = Quote}) % 2 = 1
        breaks == {i \in 1..Len(s) : s[i] = Newline /\ ~quoted(i)}
        commas == {i \in 1..Len(s) : s[i] = Comma /\ ~quoted(i)}
        ends == breaks \cup (IF Len(s) > 0 /\ Len(s) \notin breaks
                             THEN {Len(s) + 1} ELSE {})
        Fields(from, to) ==
            LET cuts == {i \in commas : from <= i /\ i < to}
                n == Cardinality(cuts)
            IN  [k \in 1..(n + 1) |->
                    SubSeq(s, IF k = 1 THEN from ELSE Nth(cuts, k - 1) + 1,
                              IF k = n + 1 THEN to - 1 ELSE Nth(cuts, k) - 1)]
    IN  [r \in 1..Cardinality(ends) |->
            Fields(IF r = 1 THEN 1 ELSE Nth(ends, r - 1) + 1, Nth(ends, r))]

\* C22: the CSV text reads as the header record followed by one record per
\* line item, in the order of the line items, and each of these records has
\* exactly five fields: the five the handler computed for the line item.
C22_OneRowOfFiveFieldsPerItem ==
    result.op = "csv" =>
        LET recs == CsvRecords(result.out)
        IN  /\ Len(recs) = Len(given) + 1
            /\ recs[1] = CsvRecords(CsvHeader)[1]
            /\ Len(recs[1]) = 5
            /\ \A i \in 1..Len(given) :
                   /\ Len(recs[i + 1]) = 5
                   /\ recs[i + 1] = result.first[i]

----------------------------------------------------------------------------
(* routers/sales_orders.py: create_new_sales_order.  The handler renames the *)
(* fields of the posted line items itself and hands the result to *)
(* create_sales_order of the store.  What it is posted is what the *)
(* extraction returned, or what normalize_fields_manually made of it. *)

\* item.get(k)
Get(item, k) == IF k \in DOMAIN item THEN item[k] ELSE None

\* "Normalize Quantity/Amount/Qty fields"
CreateQuantity(item) ==
    IF "Quantity" \in DOMAIN item THEN "Quantity" :> item["Quantity"]
    ELSE IF "Qty" \in DOMAIN item THEN "Quantity" :> item["Qty"]
    ELSE IF "Amount" \in DOMAIN item
         THEN ("Quantity" :> item["Amount"]) @@ ("Amount" :> item["Amount"])
    ELSE EmptyDict

\* one pass of the loop over line_items_data
create_normalized_item(item) ==
    FirstOf(item, <<"Request Item">>, "Request Item")
    @@ CreateQuantity(item)
    @@ FirstOf(item, <<"Unit Price", "Price">>, "Unit Price")
    @@ FirstOf(item, <<"Total">>, "Total")
    @@ ("matched_item" :> Get(item, "matched_item"))
    @@ ("match_score" :> Get(item, "match_score"))

create_normalized_items(line_items_data) ==
    [i \in 1..Len(line_items_data) |-> create_normalized_item(line_items_data[i])]

\* the handler from json.loads on: the store's create_sales_order with the
\* renamed items
create_new_sales_order(f, file_name, line_items_data, n, t1, t2) ==
    create_sales_order(f, file_name, create_normalized_items(line_items_data), n, t1, t2)

\* POST /sales-orders with the items as extracted, or with the items that
\* normalize_fields_manually returned for them
CreateNewSalesOrder ==
    /\ result.op \in {"none", "normalize"}
    /\ ~result.raised
    /\ nextId < MaxCreates
    /\ \E t1 \in Now(clock) : \E t2 \in NowAgain(t1) :
         LET posted == IF result.op = "none" THEN given ELSE result.out
             r == create_new_sales_order(file, Str("a.pdf"), posted, nextId + 1, t1, t2)
         IN  /\ file' = r.file
             /\ prev' = file
             /\ nextId' = IF r.res = "ok" THEN nextId + 1 ELSE nextId
             /\ clock' = IF r.res = "ok" THEN t2 ELSE clock
             /\ last' = Call("create", Uuid(nextId + 1), 0, EmptyDict, Str("a.pdf"),
                             create_normalized_items(posted), r, t1, t2)
             /\ result' = [NoResult EXCEPT
                             !.op = IF result.op = "none" THEN "create"
                                    ELSE "normalize_create",
                             !.raised = r.res # "ok",
                             !.first = posted,
                             !.out = IF r.res = "ok"
                                     THEN r.file.data[r.pos].doc["line_items"][2]
                                     ELSE <<>>]
    /\ UNCHANGED <<deleted, lost, given>>
    /\ UNCHANGED <<concVars, reqVars, dbVars>>

CreateNext == Normalize \/ CreateNewSalesOrder

CreateSpec == NormalizeInit /\ [][CreateNext]_vars

\* dicts a and b have the same keys among ks, with the same values
AgreeOn(a, b, ks) ==
    \A k \in ks : /\ k \in DOMAIN a <=> k \in DOMAIN b
                  /\ k \in DOMAIN a => a[k] = b[k]

\* C23: the line items stored for posted raw items have the Request Item,
\* Quantity, Unit Price and Total that normalize_fields_manually gives the
\* same raw items (when it returns); and the line items stored for posted
\* output of normalize_fields_manually have every field of that output, with
\* its value, and no Quantity that the output did not have.
C23_CreateAgreesWithManualNormalizer ==
    /\ (result.op = "create" /\ ~result.raised
        /\ ~normalize_fields_manually(given).raised)
           => /\ Len(result.out) = Len(given)
              /\ \A i \in 1..Len(given) :
                     AgreeOn(result.out[i], normalize_fields_manually(given).out[i],
                             CanonicalKeys)
    /\ (result.op = "normalize_create" /\ ~result.raised)
           => /\ Len(result.out) = Len(result.first)
              /\ \A i \in 1..Len(result.first) :
                     /\ AgreeOn(result.out[i], result.first[i], DOMAIN result.first[i])
                     /\ AgreeOn(result.out[i], result.first[i], CanonicalKeys)

====
